---- MODULE Spec2Model ----
(***************************************************************************)
(* Verification model of the reproducibility package                       *)
(* sbp_sat_geophysics_2022: the two Dockerfiles (src/Dockerfile and        *)
(* src/unnamed/part_001), the SPECFEM2D interface files, and the notebook  *)
(* notebooks/2e_Devito.ipynb.                                              *)
(*                                                                         *)
(* A path is a sequence of components; an absolute path starts with "/".   *)
(* A path stored in the image's file system is absolute and normalised,    *)
(* written without the leading "/".                                        *)
(***************************************************************************)
EXTENDS Integers, Sequences, FiniteSets, TLC

(***************************************************************************)
(* Bounds of the model                                                     *)
(***************************************************************************)

\* number of distinct dates at which an image may be built (the upstream
\* branch heads differ from one date to the next)
MaxDates == 2

\* number of times the notebook is run in one container
MaxRuns == 2

(***************************************************************************)
(* Shell commands and Dockerfile instructions                              *)
(***************************************************************************)

NoPath == <<>>

\* a shell command: its name c, two path arguments a and b, two words s and t
Cmd(c, a, b, s, t) == [c |-> c, a |-> a, b |-> b, s |-> s, t |-> t]

\* a command with one path, with two paths, with words only
PathCmd(c, a) == Cmd(c, a, NoPath, "", "")
PathsCmd(c, a, b) == Cmd(c, a, b, "", "")
WordCmd(c, s, t) == Cmd(c, NoPath, NoPath, s, t)

\* a Dockerfile instruction: its keyword op, the line it starts at, the commands
\* of a RUN (joined by &&), two path arguments and two words
Ins(op, line, cmds, a, b, s, v) ==
    [op |-> op, line |-> line, cmds |-> cmds, a |-> a, b |-> b, s |-> s, v |-> v]

RUN(line, cmds) == Ins("RUN", line, cmds, NoPath, NoPath, "", "")
WORKDIR(line, p) == Ins("WORKDIR", line, <<>>, p, NoPath, "", "")
ADD(line, from, to) == Ins("ADD", line, <<>>, from, to, "", "")
ENV(line, name, value, p) == Ins("ENV", line, <<>>, p, NoPath, name, value)
FROM(line, image) == Ins("FROM", line, <<>>, NoPath, NoPath, image, "")

(***************************************************************************)
(* The names the build files use                                           *)
(***************************************************************************)

OptIspcBin == <<"/", "opt", "ispc", "bin">>
Home == <<"/", "home">>
RepoHome == <<"/", "home", "sbp_sat_geophysics_2022">>
SpecfemFolder == <<"/", "home", "sbp_sat_geophysics_2022", "specfem2d">>
IspcTar == "ispc-v1.17.0-linux.tar.gz"
IspcDir == "ispc-v1.17.0-linux"

\* the commit hash the README tells the user to check out
ReadmeFwi2dCommit == "1b20e7ee0bbe06eb43cbee18c91d7ed29809a8e4"

\* the RUN that builds fwi2d, as it would be without its git checkout line
RUN_fwi2d_no_checkout ==
    RUN(30, <<PathCmd("cd", <<"/", "opt">>),
              WordCmd("clone", "fwi2d", ""),
              PathCmd("cd", <<"fwi2d">>),
              PathCmd("mkdir", <<"build">>), PathCmd("mkdir", <<"local">>),
              PathCmd("cd", <<"external", "SEP">>),
              PathCmd("bash", <<".", "buildit.sh">>),
              PathCmd("cd", <<"..", "..", "build">>),
              PathsCmd("cmake", <<"..", "local">>, OptIspcBin \o <<"ispc">>),
              WordCmd("make", "", ""),
              WordCmd("makeinstall", "", ""),
              PathCmd("cd", <<"..", "">>),
              PathCmd("rm", <<"build">>)>>)

\* src/Dockerfile: the RUN that clones, pins, builds and installs fwi2d
RUN_fwi2d ==
    RUN(30, <<PathCmd("cd", <<"/", "opt">>),
              WordCmd("clone", "fwi2d", ""),
              PathCmd("cd", <<"fwi2d">>),
              WordCmd("checkout", "1b20e7ee0bbe06eb43cbee18c91d7ed29809a8e4", ""),
              PathCmd("mkdir", <<"build">>), PathCmd("mkdir", <<"local">>),
              PathCmd("cd", <<"external", "SEP">>),
              PathCmd("bash", <<".", "buildit.sh">>),
              PathCmd("cd", <<"..", "..", "build">>),
              PathsCmd("cmake", <<"..", "local">>, OptIspcBin \o <<"ispc">>),
              WordCmd("make", "", ""),
              WordCmd("makeinstall", "", ""),
              PathCmd("cd", <<"..", "">>),
              PathCmd("rm", <<"build">>)>>)

\* src/unnamed/part_001: the RUN that clones, pins, builds and installs fwi2d
RUN_fwi2d_part_001 ==
    RUN(45, <<PathCmd("cd", <<"/", "opt">>),
              WordCmd("clone", "fwi2d", ""),
              PathCmd("cd", <<"fwi2d">>),
              WordCmd("checkout", "4eaafedea7f58a944c5278661d6f59ec5548799b", ""),
              PathCmd("mkdir", <<"build">>),
              PathCmd("cd", <<"external", "SEP">>),
              PathCmd("bash", <<".", "buildit.sh">>),
              PathCmd("cd", <<"..", "..", "build">>),
              PathsCmd("cmake", <<"/", "opt", "fwi2d", "">>, OptIspcBin \o <<"ispc">>),
              WordCmd("make", "", ""),
              WordCmd("makeinstall", "", ""),
              PathCmd("cd", <<"..", "">>),
              PathCmd("rm", <<"build">>)>>)

\* src/Dockerfile, one instruction per entry
Dockerfile ==
    << FROM(1, "ubuntu:18.04"),
       RUN(3, <<WordCmd("apt", "update", "")>>),
       RUN(4, <<WordCmd("apt", "build-essential", "")>>),
       RUN(5, <<WordCmd("apt", "libelf-dev libffi-dev", "")>>),
       RUN(6, <<WordCmd("apt", "pkg-config", "")>>),
       RUN(7, <<WordCmd("apt", "wget git gcc g++ gfortran make cmake vim lsof", "")>>),
       RUN(8, <<WordCmd("apt", "flex libxaw7-dev", "")>>),
       RUN(9, <<WordCmd("apt", "libfftw3-3 libfftw3-dev libssl-dev", "")>>),
       RUN(11, <<WordCmd("apt", "python3-pip", "")>>),
       RUN(12, <<WordCmd("pip", "pip", "")>>),
       RUN(14, <<WordCmd("pip", "numpy", ""), WordCmd("pip", "jupyter", ""), WordCmd("pip", "scipy", ""),
                 WordCmd("pip", "matplotlib", "")>>),
       RUN(19, <<PathCmd("mkdir", OptIspcBin)>>),
       RUN(20, <<PathCmd("mkdir", Home)>>),
       RUN(21, <<PathCmd("mkdir", RepoHome)>>),
       WORKDIR(22, Home),
       RUN(24, <<WordCmd("wget", IspcTar, ""),
                 PathCmd("tar", <<IspcTar>>),
                 PathsCmd("cp", <<IspcDir, "bin", "ispc">>, OptIspcBin \o <<"">>),
                 PathCmd("rm", <<IspcTar>>),
                 PathCmd("rm", <<IspcDir>>)>>),
       RUN_fwi2d,
       RUN(44, <<PathCmd("cd", <<"/", "opt">>),
                 WordCmd("clone", "specfem2d", "devel"),
                 PathCmd("cd", <<"specfem2d">>),
                 PathCmd("configure", <<"configure">>),
                 WordCmd("make", "", "")>>),
       ADD(50, <<"notebooks">>, RepoHome \o <<"notebooks">>),
       ADD(51, <<"specfem2d">>, SpecfemFolder),
       ADD(52, <<"README.md">>, RepoHome),
       RUN(54, <<PathsCmd("ls", <<"/", "opt", "specfem2d", "bin", "xmeshfem2D">>, SpecfemFolder)>>),
       RUN(55, <<PathsCmd("ls", <<"/", "opt", "specfem2d", "bin", "xspecfem2d">>, SpecfemFolder)>>),
       RUN(57, <<WordCmd("apt", "clean", "")>>),
       ENV(59, "HOME", "/home", Home),
       ENV(60, "PATH", "/opt/fwi2d/bin:${PATH}", <<"/", "opt", "fwi2d", "bin">>),
       ENV(61, "DATAPATH", "/tmp/", NoPath),
       RUN(62, <<PathCmd("echo", <<"~", ".bashrc">>)>>) >>

\* src/unnamed/part_001, the Dockerfile that also installs Devito
Dockerfile_part_001 ==
    << FROM(1, "ubuntu:18.04"),
       RUN(3, <<WordCmd("apt", "update", "")>>),
       RUN(4, <<WordCmd("apt", "build-essential", "")>>),
       RUN(5, <<WordCmd("apt", "libelf-dev libffi-dev", "")>>),
       RUN(6, <<WordCmd("apt", "pkg-config", "")>>),
       RUN(7, <<WordCmd("apt", "wget git gcc g++ gfortran make cmake vim lsof", "")>>),
       RUN(8, <<WordCmd("apt", "flex libxaw7-dev", "")>>),
       RUN(9, <<WordCmd("apt", "libfftw3-3 libfftw3-dev libssl-dev", "")>>),
       RUN(11, <<WordCmd("apt", "python3-pip", "")>>),
       RUN(12, <<WordCmd("pip", "pip", "")>>),
       RUN(14, <<WordCmd("pip", "numpy", ""), WordCmd("pip", "jupyter", ""), WordCmd("pip", "scipy", ""),
                 WordCmd("pip", "wheel", ""), WordCmd("pip", "matplotlib", "")>>),
       RUN(20, <<PathCmd("mkdir", OptIspcBin)>>),
       RUN(21, <<PathCmd("mkdir", Home)>>),
       RUN(22, <<PathCmd("mkdir", RepoHome)>>),
       WORKDIR(23, Home),
       RUN(26, <<PathCmd("cd", <<"/", "opt">>),
                 WordCmd("clone", "specfem2d", "devel"),
                 PathCmd("cd", <<"/", "opt", "specfem2d">>),
                 PathCmd("configure", <<"configure">>),
                 WordCmd("make", "", "")>>),
       RUN(32, <<PathCmd("cd", <<"/", "opt">>),
                 WordCmd("clone", "devito", ""),
                 PathCmd("cd", <<"devito">>),
                 PathCmd("rm", <<".git">>),
                 Cmd("pipe", <<"/", "opt", "devito">>, NoPath, "devito", "")>>),
       RUN(39, <<WordCmd("wget", IspcTar, ""),
                 PathCmd("tar", <<IspcTar>>),
                 PathsCmd("cp", <<IspcDir, "bin", "ispc">>, OptIspcBin \o <<"">>),
                 PathCmd("rm", <<IspcTar>>),
                 PathCmd("rm", <<IspcDir>>)>>),
       RUN_fwi2d_part_001,
       ADD(59, <<"notebooks">>, RepoHome \o <<"notebooks">>),
       ADD(60, <<"specfem2d">>, SpecfemFolder),
       ADD(61, <<"README.md">>, RepoHome),
       RUN(63, <<PathsCmd("cp", <<"/", "opt", "specfem2d", "bin", "xmeshfem2D">>, SpecfemFolder)>>),
       RUN(64, <<PathsCmd("cp", <<"/", "opt", "specfem2d", "bin", "xspecfem2D">>, SpecfemFolder)>>),
       RUN(65, <<PathCmd("rm", <<"/", "opt", "specfem2d">>)>>),
       RUN(67, <<WordCmd("apt", "clean", "")>>),
       ENV(69, "HOME", "/home", Home),
       ENV(70, "PATH", "/opt/fwi2d/bin:${PATH}", <<"/", "opt", "fwi2d", "bin">>),
       ENV(71, "DATAPATH", "/tmp/", NoPath),
       ENV(72, "DEVITO_ARCH", "gcc", NoPath),
       ENV(73, "DEVITO_LANGUAGE", "openmp", NoPath),
       RUN(74, <<PathCmd("echo", <<"~", ".bashrc">>)>>) >>

DockerfileNames == {"Dockerfile", "part_001"}

\* the instructions with the twelfth (RUN mkdir -p /opt/ispc/bin) moved to the end
Instructions_mkdir_ispc_last(name) ==
    LET s == IF name = "Dockerfile" THEN Dockerfile ELSE Dockerfile_part_001
    IN  SubSeq(s, 1, 11) \o SubSeq(s, 13, Len(s)) \o <<s[12]>>

Instructions(name) == IF name = "Dockerfile" THEN Dockerfile ELSE Dockerfile_part_001

(***************************************************************************)
(* Paths                                                                   *)
(***************************************************************************)

RECURSIVE NormAcc(_, _)
\* drop "" and ".", let ".." remove the component before it
NormAcc(p, acc) ==
    IF p = <<>> THEN acc
    ELSE IF Head(p) \in {"", "."} THEN NormAcc(Tail(p), acc)
    ELSE IF Head(p) = ".."
        THEN NormAcc(Tail(p), IF acc = <<>> THEN acc ELSE SubSeq(acc, 1, Len(acc) - 1))
    ELSE NormAcc(Tail(p), Append(acc, Head(p)))

Norm(p) == NormAcc(p, <<>>)

\* the absolute path a shell with working directory cwd and home directory home
\* means by p
Resolve(cwd, home, p) ==
    IF p # <<>> /\ Head(p) = "/" THEN Norm(Tail(p))
    ELSE IF p # <<>> /\ Head(p) = "~" THEN Norm(home \o Tail(p))
    ELSE Norm(cwd \o p)

\* p written with a trailing slash
TrailingSlash(p) == p # <<>> /\ p[Len(p)] = ""

IsPrefix(q, p) == Len(q) <= Len(p) /\ SubSeq(p, 1, Len(q)) = q

\* p and every directory above it
WithParents(p) == {SubSeq(p, 1, k) : k \in 1..Len(p)}

Parent(p) == SubSeq(p, 1, Len(p) - 1)

BaseName(p) == p[Len(p)]

(***************************************************************************)
(* What the external downloads hold, as far as the build files use it      *)
(***************************************************************************)

\* directories of a fresh clone of repo, relative to its root
RepoDirs(repo) ==
    IF repo = "fwi2d" THEN {<<".git">>, <<"external">>, <<"external", "SEP">>}
    ELSE {<<".git">>}

\* files of a fresh clone of repo, relative to its root
RepoFiles(repo) ==
    IF repo = "fwi2d" THEN {<<"CMakeLists.txt">>, <<"external", "SEP", "buildit.sh">>}
    ELSE IF repo = "specfem2d" THEN {<<"configure">>, <<"Makefile.in">>}
    ELSE {<<"setup.py">>}

\* the spellings of the SPECFEM2D solver executable: the Dockerfiles and the README
\* name it both ways, and which one make produces is decided by SPECFEM2D
SpecfemExeNames == {"xspecfem2D", "xspecfem2d"}

\* the source a clone holds: the head of the branch on the date of the build
\* (asof = date), or a commit checked out by its hash (asof = 0: the same on every date)
HeadOf(branch, date) == [id |-> "HEAD:" \o branch, asof |-> date]
Pinned(hash) == [id |-> hash, asof |-> 0]

(***************************************************************************)
(* The shell: one command on the state of a RUN                            *)
(*                                                                         *)
(* st: ok (no command has failed), cwd, home, dirs, files, clones (repo,   *)
(* root, commit), compiled (repo, commit), installed, py, sys, prefix,     *)
(* configured, exe (the executable name SPECFEM2D's make produces), date   *)
(***************************************************************************)

Exists(st, p) == p = <<>> \/ p \in st.dirs \/ p \in st.files

Fail(st) == [st EXCEPT !.ok = FALSE]

\* the clone whose tree holds the working directory
ClonesAt(st) == {c \in st.clones : IsPrefix(c.root, st.cwd)}

ExecCd(st, cmd) ==
    LET p == Resolve(st.cwd, st.home, cmd.a)
    IN  IF p = <<>> \/ p \in st.dirs THEN [st EXCEPT !.cwd = p] ELSE Fail(st)

ExecMkdirP(st, cmd) ==
    LET p == Resolve(st.cwd, st.home, cmd.a)
    IN  IF \E q \in WithParents(p) : q \in st.files THEN Fail(st)
        ELSE [st EXCEPT !.dirs = @ \cup WithParents(p)]

ExecGitClone(st, cmd) ==
    LET root == st.cwd \o <<cmd.s>>
    IN  IF Exists(st, root) THEN Fail(st)
        ELSE [st EXCEPT
                !.dirs = @ \cup {root} \cup {root \o d : d \in RepoDirs(cmd.s)},
                !.files = @ \cup {root \o f : f \in RepoFiles(cmd.s)},
                !.clones = @ \cup {[repo |-> cmd.s, root |-> root,
                                    commit |-> HeadOf(cmd.t, st.date)]}]

ExecGitCheckout(st, cmd) ==
    LET here == {c \in ClonesAt(st) : (c.root \o <<".git">>) \in st.dirs}
    IN  IF here = {} THEN Fail(st)
        ELSE [st EXCEPT
                !.clones = (@ \ here) \cup
                           {[c EXCEPT !.commit = Pinned(cmd.s)] : c \in here}]

ExecBash(st, cmd) ==
    IF Resolve(st.cwd, st.home, cmd.a) \in st.files THEN st ELSE Fail(st)

ExecConfigure(st, cmd) ==
    IF Resolve(st.cwd, st.home, cmd.a) \in st.files
    THEN [st EXCEPT !.configured = @ \cup {st.cwd},
                    !.files = @ \cup {st.cwd \o <<"Makefile">>}]
    ELSE Fail(st)

\* cmake -DCMAKE_INSTALL_PREFIX=a -DISPC=b ../
ExecCmake(st, cmd) ==
    LET srcdir == Resolve(st.cwd, st.home, <<"..", "">>)
    IN  IF (srcdir \o <<"CMakeLists.txt">>) \in st.files
           /\ Resolve(st.cwd, st.home, cmd.b) \in st.files
        THEN [st EXCEPT !.configured = @ \cup {st.cwd},
                        !.files = @ \cup {st.cwd \o <<"Makefile">>},
                        !.prefix = Resolve(st.cwd, st.home, cmd.a)]
        ELSE Fail(st)

\* make: compiles the source of the clone the working directory lies in; in the
\* SPECFEM2D tree it leaves the two executables in bin
ExecMake(st, cmd) ==
    IF (st.cwd \o <<"Makefile">>) \notin st.files \/ ClonesAt(st) = {} THEN Fail(st)
    ELSE LET c == CHOOSE c \in ClonesAt(st) : TRUE
         IN  [st EXCEPT
                !.compiled = @ \cup {[repo |-> c.repo, commit |-> c.commit]},
                !.dirs = IF c.repo = "specfem2d" THEN @ \cup {c.root \o <<"bin">>} ELSE @,
                !.files = IF c.repo = "specfem2d"
                          THEN @ \cup {c.root \o <<"bin", "xmeshfem2D">>,
                                       c.root \o <<"bin", st.exe>>}
                          ELSE @,
                !.installed = IF c.repo = "specfem2d" THEN @ \cup {c.repo} ELSE @]

\* make install: the executables go to bin under the prefix given to cmake
ExecMakeInstall(st, cmd) ==
    LET here == {c \in ClonesAt(st) : [repo |-> c.repo, commit |-> c.commit] \in st.compiled}
    IN  IF (st.cwd \o <<"Makefile">>) \notin st.files \/ here = {} THEN Fail(st)
        ELSE LET c == CHOOSE c \in here : TRUE
             IN  [st EXCEPT
                    !.dirs = @ \cup WithParents(st.prefix \o <<"bin">>),
                    !.files = @ \cup {st.prefix \o <<"bin", "WE_MODELING.x">>},
                    !.installed = @ \cup {c.repo}]

\* rm -f, rm -rf: the path and all below it; never fails
ExecRm(st, cmd) ==
    LET p == Resolve(st.cwd, st.home, cmd.a)
    IN  [st EXCEPT !.dirs = {d \in @ : ~IsPrefix(p, d)},
                   !.files = {f \in @ : ~IsPrefix(p, f)}]

\* cp a b: into b when b is a directory, as b when b's directory exists
ExecCp(st, cmd) ==
    LET from == Resolve(st.cwd, st.home, cmd.a)
        to == Resolve(st.cwd, st.home, cmd.b)
    IN  IF from \notin st.files THEN Fail(st)
        ELSE IF to \in st.dirs THEN [st EXCEPT !.files = @ \cup {to \o <<BaseName(from)>>}]
        ELSE IF ~TrailingSlash(cmd.b) /\ to # <<>> /\ Exists(st, Parent(to))
                /\ Parent(to) \notin st.files
            THEN [st EXCEPT !.files = @ \cup {to}]
        ELSE Fail(st)

\* ls -s a b: lists a and b with their sizes; fails when one of them is missing;
\* creates nothing
ExecLs(st, cmd) ==
    IF Exists(st, Resolve(st.cwd, st.home, cmd.a))
       /\ Exists(st, Resolve(st.cwd, st.home, cmd.b))
    THEN st ELSE Fail(st)

ExecWget(st, cmd) == [st EXCEPT !.files = @ \cup {st.cwd \o <<cmd.s>>}]

\* tar -xvf of the ispc release: the directory ispc-v1.17.0-linux with bin/ispc
ExecTar(st, cmd) ==
    IF Resolve(st.cwd, st.home, cmd.a) \in st.files
    THEN [st EXCEPT !.dirs = @ \cup {st.cwd \o <<IspcDir>>, st.cwd \o <<IspcDir, "bin">>},
                    !.files = @ \cup {st.cwd \o <<IspcDir, "bin", "ispc">>}]
    ELSE Fail(st)

ExecPip(st, cmd) == [st EXCEPT !.py = @ \cup {cmd.s}]

\* python3 -m pip install -e a[extras]: the package of the clone at a
ExecPipE(st, cmd) ==
    LET root == Resolve(st.cwd, st.home, cmd.a)
        here == {c \in st.clones : c.root = root}
    IN  IF here = {} \/ (root \o <<"setup.py">>) \notin st.files THEN Fail(st)
        ELSE LET c == CHOOSE c \in here : TRUE
             IN  [st EXCEPT !.py = @ \cup {cmd.s},
                            !.compiled = @ \cup {[repo |-> c.repo, commit |-> c.commit]},
                            !.installed = @ \cup {c.repo}]

ExecApt(st, cmd) == [st EXCEPT !.sys = @ \cup {cmd.s}]

\* echo ... >> a
ExecEcho(st, cmd) ==
    LET p == Resolve(st.cwd, st.home, cmd.a)
    IN  IF p # <<>> /\ Exists(st, Parent(p)) /\ p \notin st.dirs
        THEN [st EXCEPT !.files = @ \cup {p}] ELSE Fail(st)

Exec(st, cmd) ==
    CASE cmd.c = "cd" -> ExecCd(st, cmd)
      [] cmd.c = "mkdir" -> ExecMkdirP(st, cmd)
      [] cmd.c = "clone" -> ExecGitClone(st, cmd)
      [] cmd.c = "checkout" -> ExecGitCheckout(st, cmd)
      [] cmd.c = "bash" -> ExecBash(st, cmd)
      [] cmd.c = "configure" -> ExecConfigure(st, cmd)
      [] cmd.c = "cmake" -> ExecCmake(st, cmd)
      [] cmd.c = "make" -> ExecMake(st, cmd)
      [] cmd.c = "makeinstall" -> ExecMakeInstall(st, cmd)
      [] cmd.c = "rm" -> ExecRm(st, cmd)
      [] cmd.c = "cp" -> ExecCp(st, cmd)
      [] cmd.c = "ls" -> ExecLs(st, cmd)
      [] cmd.c = "wget" -> ExecWget(st, cmd)
      [] cmd.c = "tar" -> ExecTar(st, cmd)
      [] cmd.c = "pip" -> ExecPip(st, cmd)
      [] cmd.c = "pipe" -> ExecPipE(st, cmd)
      [] cmd.c = "apt" -> ExecApt(st, cmd)
      [] cmd.c = "echo" -> ExecEcho(st, cmd)

RECURSIVE RunCmds(_, _)
\* a && b && ...: each command runs only when all before it succeeded
RunCmds(st, cmds) ==
    IF cmds = <<>> \/ ~st.ok THEN st
    ELSE RunCmds(Exec(st, Head(cmds)), Tail(cmds))

(***************************************************************************)
(* State                                                                   *)
(***************************************************************************)

VARIABLES
    dockerfile,   \* the build file given to docker build -f
    specfemExe,   \* the name SPECFEM2D's make gives the solver executable
    date,         \* the date of the build
    bpc,          \* the index of the next instruction of the build
    bstatus,      \* "building", "built" or "failed"
    image,        \* the file system and the installed software of the image
    workdir,      \* the WORKDIR of the image
    env           \* the ENV of the image: HOME, PATH and the other variables

buildVars == <<dockerfile, specfemExe, date, bpc, bstatus, image, workdir, env>>

\* the files docker build is given: the repository itself
ContextFiles ==
    { <<"notebooks", "2e_Devito.ipynb">>,
      <<"specfem2d", "interface2.p">>,
      <<"README.md">> }

\* ubuntu:18.04
BaseImage ==
    [ dirs |-> {<<"opt">>, <<"home">>, <<"root">>, <<"tmp">>, <<"usr">>, <<"usr", "bin">>},
      files |-> {},
      clones |-> {},
      compiled |-> {},
      installed |-> {},
      py |-> {},
      sys |-> {},
      prefix |-> <<"usr", "local">>,
      configured |-> {} ]

BaseEnv ==
    [ HOME |-> <<"/", "root">>,
      PATH |-> << <<"/", "usr", "bin">> >>,
      other |-> {} ]

\* the container and the runs of the notebook in it
VARIABLES
    kstatus,   \* "none" (no container), "idle", "running", "done" or "failed"
    cell,      \* the number of the next code cell of the run, 1..11
    run,       \* the number of runs of the notebook started so far
    ns,        \* the names the cells have assigned so far, with their values
    error,     \* the exception that stopped the run, "" when none did
    cdirs,     \* the directories of the container
    cfiles,    \* the files of the container that came with the image
    saved      \* the .npy files written in the container: path -> data, run, version

nbVars == <<kstatus, cell, run, ns, error, cdirs, cfiles, saved>>

BuildInit ==
    /\ dockerfile \in DockerfileNames
    /\ specfemExe \in SpecfemExeNames
    /\ date \in 1..MaxDates
    /\ bpc = 1
    /\ bstatus = "building"
    /\ image = BaseImage
    /\ workdir = <<>>
    /\ env = BaseEnv

Current == Instructions(dockerfile)[bpc]

\* the build is over when its last instruction has run
StatusAfter(ok) ==
    IF ~ok THEN "failed"
    ELSE IF bpc = Len(Instructions(dockerfile)) THEN "built"
    ELSE "building"

Building(op) ==
    /\ bstatus = "building"
    /\ bpc <= Len(Instructions(dockerfile))
    /\ Current.op = op

\* the state a RUN starts its shell in
ShellOf(img) ==
    img @@ [ ok |-> TRUE, cwd |-> workdir, home |-> Norm(Tail(env.HOME)),
             exe |-> specfemExe, date |-> date ]

ImageOf(st) == [f \in DOMAIN BaseImage |-> st[f]]

BuildFrom ==
    /\ Building("FROM")
    /\ bpc' = bpc + 1
    /\ bstatus' = StatusAfter(TRUE)
    /\ UNCHANGED <<dockerfile, specfemExe, date, image, workdir, env>>
    /\ UNCHANGED nbVars

\* RUN a && b && ...: the image changes when every command succeeded, and the
\* build stops when one failed
BuildRun ==
    /\ Building("RUN")
    /\ LET st == RunCmds(ShellOf(image), Current.cmds)
       IN  /\ image' = IF st.ok THEN ImageOf(st) ELSE image
           /\ bstatus' = StatusAfter(st.ok)
           /\ bpc' = IF st.ok THEN bpc + 1 ELSE bpc
    /\ UNCHANGED <<dockerfile, specfemExe, date, workdir, env>>
    /\ UNCHANGED nbVars

\* WORKDIR as it would be if it left the working directory as it was
BuildWorkdirIgnored ==
    /\ Building("WORKDIR")
    /\ bpc' = bpc + 1
    /\ bstatus' = StatusAfter(TRUE)
    /\ UNCHANGED <<dockerfile, specfemExe, date, image, workdir, env>>
    /\ UNCHANGED nbVars

\* WORKDIR p: created when missing
BuildWorkdir ==
    /\ Building("WORKDIR")
    /\ LET p == Resolve(workdir, Norm(Tail(env.HOME)), Current.a)
       IN  /\ workdir' = p
           /\ image' = [image EXCEPT !.dirs = @ \cup WithParents(p)]
    /\ bpc' = bpc + 1
    /\ bstatus' = StatusAfter(TRUE)
    /\ UNCHANGED <<dockerfile, specfemExe, date, env>>
    /\ UNCHANGED nbVars

\* ADD a b: a directory of the context is copied as b, a file into the directory b
BuildAdd ==
    /\ Building("ADD")
    /\ LET from == Current.a
           to == Resolve(workdir, Norm(Tail(env.HOME)), Current.b)
           inDir == {f \in ContextFiles : IsPrefix(from, f) /\ f # from}
           ok == from \in ContextFiles \/ inDir # {}
       IN  /\ image' =
                IF ~ok THEN image
                ELSE IF from \in ContextFiles
                THEN IF to \in image.dirs
                     THEN [image EXCEPT !.files = @ \cup {to \o <<BaseName(from)>>}]
                     ELSE [image EXCEPT !.dirs = @ \cup WithParents(Parent(to)),
                                        !.files = @ \cup {to}]
                ELSE [image EXCEPT
                        !.dirs = @ \cup WithParents(to),
                        !.files = @ \cup {to \o SubSeq(f, Len(from) + 1, Len(f)) : f \in inDir}]
           /\ bstatus' = StatusAfter(ok)
           /\ bpc' = IF ok THEN bpc + 1 ELSE bpc
    /\ UNCHANGED <<dockerfile, specfemExe, date, workdir, env>>
    /\ UNCHANGED nbVars

\* ENV name=value; in the value of PATH, ${PATH} stands for the PATH so far
BuildEnv ==
    /\ Building("ENV")
    /\ env' = IF Current.s = "HOME" THEN [env EXCEPT !.HOME = Current.a]
              ELSE IF Current.s = "PATH" THEN [env EXCEPT !.PATH = <<Current.a>> \o @]
              ELSE [env EXCEPT !.other =
                        {e \in @ : e[1] # Current.s} \cup {<<Current.s, Current.v>>}]
    /\ bpc' = bpc + 1
    /\ bstatus' = StatusAfter(TRUE)
    /\ UNCHANGED <<dockerfile, specfemExe, date, image, workdir>>
    /\ UNCHANGED nbVars

Build == BuildFrom \/ BuildRun \/ BuildWorkdir \/ BuildAdd \/ BuildEnv

(***************************************************************************)
(* specfem2d/interface2.p: the line-oriented interface file                *)
(***************************************************************************)

\* a comment line (it starts with #) and a line of numbers
Cm == [comment |-> TRUE, nums |-> <<>>]
Ln(nums) == [comment |-> FALSE, nums |-> nums]

\* src/specfem2d/interface2.p, line by line
interface2_p ==
    << Cm, Cm, Cm, Ln(<<3>>),
       Cm, Cm, Cm, Cm,
       Cm, Cm, Ln(<<2>>), Ln(<<0, 0>>), Ln(<<6000, 0>>),
       Cm, Cm, Cm, Ln(<<2>>), Ln(<<0, 2880>>), Ln(<<6000, 2880>>),
       Cm, Cm, Cm, Ln(<<2>>), Ln(<<0, 4080>>), Ln(<<6000, 4080>>),
       Cm, Cm, Cm, Cm,
       Cm, Cm, Cm, Cm, Ln(<<72>>),
       Cm, Cm, Cm, Ln(<<30>>) >>

\* src/unnamed/part_000, the interface file of the 5920 m by 4000 m mesh, line by line
part_000 ==
    << Cm, Cm, Cm, Ln(<<3>>),
       Cm, Cm, Cm, Cm,
       Cm, Cm, Ln(<<2>>), Ln(<<0, 0>>), Ln(<<5920, 0>>),
       Cm, Cm, Cm, Ln(<<2>>), Ln(<<0, 2880>>), Ln(<<5920, 2880>>),
       Cm, Cm, Cm, Ln(<<2>>), Ln(<<0, 4000>>), Ln(<<5920, 4000>>),
       Cm, Cm, Cm, Cm,
       Cm, Cm, Cm, Cm, Ln(<<144>>),
       Cm, Cm, Cm, Ln(<<56>>) >>

\* the lines that are read: comments are skipped
DataLines(file) ==
    LET keep(l) == ~l.comment
    IN  SelectSeq(file, keep)

RECURSIVE ReadInterfaces(_, _, _)
\* k interfaces from line pos of d on: each a count, then that many x,z lines
ReadInterfaces(d, pos, k) ==
    IF k = 0 \/ pos > Len(d) THEN <<>>
    ELSE LET n == d[pos].nums[1]
             last == IF pos + n <= Len(d) THEN pos + n ELSE Len(d)
             pts == [j \in 1..(last - pos) |-> d[pos + j].nums]
         IN  <<pts>> \o ReadInterfaces(d, pos + n + 1, k - 1)

\* the interfaces of a file, bottom to top, each a sequence of points <<x, z>>
Interfaces(file) ==
    LET d == DataLines(file)
    IN  ReadInterfaces(d, 2, d[1].nums[1])

RECURSIVE DeclaredCounts(_, _, _)
\* the number of points each of the k interfaces from line pos of d on declares
DeclaredCounts(d, pos, k) ==
    IF k = 0 \/ pos > Len(d) THEN <<>>
    ELSE <<d[pos].nums[1]>> \o DeclaredCounts(d, pos + d[pos].nums[1] + 1, k - 1)

\* the line after k interfaces as if each took its count line only
AfterInterfacesCountLinesOnly(d, pos, k) == pos + k

RECURSIVE AfterInterfaces(_, _, _)
\* the line after the k interfaces that start at line pos of d
AfterInterfaces(d, pos, k) ==
    IF k = 0 \/ pos > Len(d) THEN pos
    ELSE AfterInterfaces(d, pos + d[pos].nums[1] + 1, k - 1)

\* the lines after the interfaces: for each layer its number of spectral elements
LayerCounts(file) ==
    LET d == DataLines(file)
        first == AfterInterfaces(d, 2, d[1].nums[1])
    IN  [l \in 1..(IF first > Len(d) THEN 0 ELSE Len(d) - first + 1) |-> d[first + l - 1].nums]

MinOf(S) == CHOOSE m \in S : \A e \in S : m <= e
MaxOf(S) == CHOOSE m \in S : \A e \in S : m >= e

Xs(interface) == {interface[j][1] : j \in 1..Len(interface)}
Zs(interface) == {interface[j][2] : j \in 1..Len(interface)}

\* the mesh of an interface file: from the bottom interface to the top one
MeshWidth(file) ==
    LET s == Interfaces(file)
    IN  MaxOf(Xs(s[Len(s)])) - MinOf(Xs(s[Len(s)]))

MeshHeight(file) ==
    LET s == Interfaces(file)
    IN  MaxOf(Zs(s[Len(s)])) - MinOf(Zs(s[1]))

\* depth of interface number 2 (ocean bottom) below interface number 3 (top of the mesh)
OceanBottomDepth(file) ==
    LET s == Interfaces(file)
    IN  MinOf(Zs(s[3])) - MaxOf(Zs(s[2]))

(***************************************************************************)
(* numpy arrays as the notebook uses them                                  *)
(*                                                                         *)
(* Lengths are in metres and times in microseconds.  The material values   *)
(* are fixed-point numbers in hundredths (1.5 is 150).  Every assignment   *)
(* to the model array spans all x (the index ":"), so a plane of shape     *)
(* (nx, nz) is stored by its shape and one column: col[iz + 1] is the      *)
(* value at depth index iz for every x.                                    *)
(***************************************************************************)

Scale == 10 * 10

\* the result of a division by zero (numpy gives inf and goes on)
Inf == 0 - 1

FMul(a, b) == IF a = Inf \/ b = Inf THEN Inf ELSE (a * b) \div Scale
FDiv(a, b) == IF b = 0 \/ a = Inf THEN Inf ELSE IF b = Inf THEN 0 ELSE (a * Scale) \div b
FSub(a, b) == IF a = Inf \/ b = Inf THEN Inf ELSE a - b

Min(a, b) == IF a <= b THEN a ELSE b
Max(a, b) == IF a >= b THEN a ELSE b

\* len(a[start:stop]) for an array of n samples and 0 <= start, stop
SliceLen(n, start, stop) == Max(0, Min(stop, n) - Min(start, n))

\* np.zeros((nx, nz)), one plane of np.zeros((3, nx, nz))
ZerosPlane(shp) == [shape |-> shp, col |-> [k \in 1..shp[2] |-> 0]]

\* a[:, lo:hi] = v
SetDepths(a, lo, hi, v) ==
    [a EXCEPT !.col = [k \in 1..Len(@) |->
        IF Min(lo, Len(@)) <= k - 1 /\ k - 1 < Min(hi, Len(@)) THEN v ELSE @[k]]]

\* a[:, iz] = v; the index must exist
SetDepth(a, iz, v) == [a EXCEPT !.col[iz + 1] = v]

\* a * b and a - b, element by element, for arrays of one shape
MulArrays(a, b) == [shape |-> a.shape, col |-> [k \in 1..Len(a.col) |-> FMul(a.col[k], b.col[k])]]
SubArrays(a, b) == [shape |-> a.shape, col |-> [k \in 1..Len(a.col) |-> FSub(a.col[k], b.col[k])]]

\* c * a and c / a, element by element, for a number c
TimesArray(c, a) == [shape |-> a.shape, col |-> [k \in 1..Len(a.col) |-> FMul(c, a.col[k])]]
OverArray(c, a) == [shape |-> a.shape, col |-> [k \in 1..Len(a.col) |-> FDiv(c, a.col[k])]]

\* rows and columns of a 2-D array kept as a sequence of rows
Shape2(A) == <<Len(A), IF Len(A) = 0 THEN 0 ELSE Len(A[1])>>

\* np.transpose of a 2-D array
Transpose(A) == [j \in 1..Shape2(A)[2] |-> [i \in 1..Shape2(A)[1] |-> A[i][j]]]

\* a sample: quantity q at time index it, with its sign; the zero of np.zeros
\* is the sample of quantity "zero"
Sample(q, it) == [q |-> q, it |-> it, sign |-> 1]
Zero == [q |-> "zero", it |-> 0, sign |-> 1]

\* -A
Negate(A) ==
    [i \in 1..Len(A) |-> [j \in 1..Len(A[i]) |->
        IF A[i][j].q = "zero" THEN A[i][j] ELSE [A[i][j] EXCEPT !.sign = 0 - @]]]

\* whether a[k] = B is accepted for a row a[k] of n entries: numpy broadcasts B
\* when its leading axes have length 1
RowFits(B, n) == Shape2(B)[1] = 1 /\ Shape2(B)[2] \in {1, n}

\* the row that a[k] = B stores
RowOf(B, n) == IF Shape2(B)[2] = 1 THEN [j \in 1..n |-> B[1][1]] ELSE B[1]


(***************************************************************************)
(* notebooks/2e_Devito.ipynb: the values the cells assign                  *)
(***************************************************************************)

xmax == 6000
zmax == 4080 + 1000
dx == 5
dz == 5
nx == 1201
nz == 817 + 200
nza == 240
sx == 2400
sz == 1120
rx == 3440
rz == 1200
vpa == 150
vsa == 0
rhoa == 100
vpe == 300
vse == 100
rhoe == 250
so == 4
to == 2
nbl == 0
nt == 5001
dt == 500
ot == 0
wavelet_start == 4750
nrec == 1

\* shape with its two axes exchanged
shape_swapped == <<nz, nx>>

\* shape = (nx, nz)
shape == <<nx, nz>>

\* the shape of one plane aemodel[k, :, :] of aemodel = np.zeros((3, nx, nz))
aemodel_plane_shape == <<nx, nz>>

\* the three planes as they would be without the assignments at depth index nza
aemodel_filled_without_interface_row ==
    LET zero == [k \in 1..3 |-> ZerosPlane(aemodel_plane_shape)]
        elastic == [k \in 1..3 |->
            SetDepths(zero[k], 0, aemodel_plane_shape[2], <<vpe, vse, rhoe>>[k])]
    IN  [k \in 1..3 |-> SetDepths(elastic[k], 0, nza, <<vpa, vsa, rhoa>>[k])]

\* the three planes after the layers are filled: the elastic values everywhere,
\* then the acoustic values above depth index nza, then at depth index nza
aemodel_filled ==
    LET zero == [k \in 1..3 |-> ZerosPlane(aemodel_plane_shape)]
        elastic == [k \in 1..3 |->
            SetDepths(zero[k], 0, aemodel_plane_shape[2], <<vpe, vse, rhoe>>[k])]
        acoustic == [k \in 1..3 |-> SetDepths(elastic[k], 0, nza, <<vpa, vsa, rhoa>>[k])]
    IN  [k \in 1..3 |-> SetDepth(acoustic[k], nza, <<vpa, vsa, rhoa>>[k])]

\* SeismicModel(origin, vp, vs, b, shape, spacing, space_order, nbl): the grid has
\* the given shape and spacing and reaches from the origin to (shape - 1) * spacing;
\* the parameters are copied onto the grid, which fails when their shape is not the
\* grid's; lam and mu are computed from vp, vs and b
SeismicModel(origin, vp, vs, b, shp, spacing, space_order, nlayers) ==
    [ ok |-> vp.shape = shp /\ vs.shape = shp /\ b.shape = shp,
      grid |-> [ shape |-> shp, spacing |-> spacing, origin |-> origin,
                 extent |-> <<(shp[1] - 1) * spacing[1], (shp[2] - 1) * spacing[2]>> ],
      space_order |-> space_order,
      nbl |-> nlayers,
      vp |-> vp, vs |-> vs, b |-> b ]

\* TimeAxis(start, stop, step): num = ceil((stop - start + step) / step) samples
TimeAxis(start, stop, step) ==
    LET num == ((stop - start + step) + step - 1) \div step
    IN  [start |-> start, step |-> step, num |-> num, stop |-> step * (num - 1) + start]

\* signal.ricker(points, a) and what the cell makes of it: the samples
\* off .. off + n - 1 of the wavelet of points samples, divided by their maximum
\* (normalised) and multiplied by gain
Ricker(points) == [points |-> points, off |-> 0, n |-> points, normalised |-> FALSE, gain |-> Scale]

\* src1[start:stop]
SliceWavelet(w, start, stop) ==
    [w EXCEPT !.off = @ + Min(start, w.n), !.n = SliceLen(w.n, start, stop)]

\* the slice src1[4750:nt], its stop given without the start added
src1_slice_stop_nt == SliceWavelet(Ricker(2 * nt - 1), wavelet_start, nt)

\* src1 = signal.ricker(2*nt-1, sigma); src1 = src1[4750:4750+nt]
src1_slice == SliceWavelet(Ricker(2 * nt - 1), wavelet_start, wavelet_start + nt)

\* the index of the central peak of signal.ricker(points, a): its samples are
\* taken at arange(points) - (points - 1) / 2, and the wavelet is largest at 0
PeakIndex(w) == (w.points - 1) \div 2

\* whether the samples kept of w hold the central peak
SliceContainsPeak(w) == w.off <= PeakIndex(w) /\ PeakIndex(w) < w.off + w.n

\* np.max of the samples of w: after src1 / np.max(src1) with the (positive) peak
\* among the samples the largest sample is 1, times the gain; Inf stands for a
\* value the model does not know
LargestSample(w) == IF w.normalised /\ SliceContainsPeak(w) THEN w.gain ELSE Inf

\* the factor without the 1000 (ms vs sec)
src1_gain_without_1000 == FMul(vpa, vpa) \div (dx * dz)

\* 1000 * vpa**2 / (dx * dz)
src1_gain == (1000 * FMul(vpa, vpa)) \div (dx * dz)

\* the equations given to Operator, in their order
u_v == [kind |-> "update", field |-> "v", at |-> "forward"]
u_t == [kind |-> "update", field |-> "t", at |-> "forward"]
Bc(field) == [kind |-> "bc", field |-> field, at |-> "forward"]
Inject(field) == [kind |-> "inject", field |-> field, at |-> "forward"]
Interpolate(rec, expr) == [kind |-> "interpolate", field |-> expr, at |-> rec]

\* the components of v and of tau
Components(field) ==
    IF field = "v" THEN {"v_x", "v_z"}
    ELSE IF field = "t" THEN {"t_xx", "t_xz", "t_zz"}
    ELSE {field}

\* the depth indices src.inject writes to for a source at depth z: the grid rows
\* around the source that its interpolation weights span
InjectedRows(z, spacing_z) == {z \div spacing_z, z \div spacing_z + 1}

\* what one equation of the time step makes of the new time level at depth index 0,
\* for every x: row0[c] tells how component c was last written there ("stencil" by
\* a time update, "zero" by the boundary condition, "source" by an injection,
\* "none" when not yet written in this step)
StepEquation(e, row0, src_rows) ==
    IF e.kind = "update"
    THEN [c \in DOMAIN row0 |-> IF c \in Components(e.field) THEN "stencil" ELSE row0[c]]
    ELSE IF e.kind = "bc"
    THEN [c \in DOMAIN row0 |-> IF c = e.field THEN "zero" ELSE row0[c]]
    ELSE IF e.kind = "inject" /\ 0 \in src_rows
    THEN [c \in DOMAIN row0 |-> IF c = e.field THEN "source" ELSE row0[c]]
    ELSE row0

RECURSIVE StepEquations(_, _, _)
\* the equations of one time step, in the order they were given to Operator
StepEquations(eqs, row0, src_rows) ==
    IF eqs = <<>> THEN row0
    ELSE StepEquations(Tail(eqs), StepEquation(Head(eqs), row0, src_rows), src_rows)

\* depth index 0 of the new time level before the step has written to it
Row0Unwritten == [c \in Components("v") \cup Components("t") |-> "none"]

\* rec_term = rec1.interpolate(tau[0, 0]) + rec2.interpolate(v[0]) + rec3.interpolate(v[1])
rec_term == <<Interpolate("rec1", "t_xx"), Interpolate("rec2", "v_x"), Interpolate("rec3", "v_z")>>

\* Receiver(name, grid, npoint, time_range): npoint traces of time_range.num zeros
Receiver(name, npoint, time_range) ==
    [ name |-> name,
      time_range |-> time_range,
      coordinates |-> <<0, 0>>,
      data |-> [i \in 1..time_range.num |-> [j \in 1..npoint |-> Zero]] ]

\* what op.apply leaves in the data of receiver r: at each time index the
\* quantity its interpolation equation names
Recorded(r, eqs) ==
    LET mine == {k \in 1..Len(eqs) : eqs[k].kind = "interpolate" /\ eqs[k].at = r.name}
    IN  IF mine = {} THEN r.data
        ELSE LET e == eqs[CHOOSE k \in mine : TRUE]
             IN  [i \in 1..Len(r.data) |-> [j \in 1..Len(r.data[i]) |-> Sample(e.field, i - 1)]]

\* the three rows without the minus sign of the first
allrec_rows_not_negated(rec1, rec2, rec3) ==
    <<Transpose(rec1.data), Transpose(rec2.data), Transpose(rec3.data)>>

\* allrec[0] = -np.transpose(rec1.data), allrec[1] = np.transpose(rec2.data),
\* allrec[2] = np.transpose(rec3.data)
allrec_rows(rec1, rec2, rec3) ==
    <<Negate(Transpose(rec1.data)), Transpose(rec2.data), Transpose(rec3.data)>>

\* the directory of the notebook and the names it uses, relative to it
NotebookDir == <<"/", "home", "sbp_sat_geophysics_2022", "notebooks">>
DatDir == <<"..", "dat">>
FigDir == <<"..", "fig">>
Devito2 == <<"..", "dat", "devito2.npy">>

(***************************************************************************)
(* A container of the image and the runs of the notebook in it             *)
(***************************************************************************)

NoNames == [n \in {} |-> 0]

NbInit ==
    /\ kstatus = "none"
    /\ cell = 1
    /\ run = 0
    /\ ns = NoNames
    /\ error = ""
    /\ cdirs = {}
    /\ cfiles = {}
    /\ saved = [f \in {} |-> 0]

\* the names of ns with those of r added or assigned anew
Bind(r) == r @@ ns

\* the absolute path of a name the notebook uses
NbPath(p) == Resolve(Norm(Tail(NotebookDir)), Norm(Tail(env.HOME)), p)

\* docker run -it: a container of the built image, with the notebook server
\* started in it
StartContainer ==
    /\ bstatus = "built"
    /\ kstatus = "none"
    /\ "jupyter" \in image.py
    /\ NbPath(<<"2e_Devito.ipynb">>) \in image.files
    /\ kstatus' = "idle"
    /\ cdirs' = image.dirs
    /\ cfiles' = image.files
    /\ UNCHANGED <<cell, run, ns, error, saved>>
    /\ UNCHANGED buildVars

\* the notebook is run from its first cell in a fresh kernel
RunNotebook ==
    /\ kstatus \in {"idle", "done", "failed"}
    /\ run < MaxRuns
    /\ kstatus' = "running"
    /\ run' = run + 1
    /\ cell' = 1
    /\ ns' = NoNames
    /\ error' = ""
    /\ UNCHANGED <<cdirs, cfiles, saved>>
    /\ UNCHANGED buildVars

Running(k) == kstatus = "running" /\ cell = k

\* the cell ends: the next one runs, or the run is done after the last
Done(names) ==
    /\ ns' = names
    /\ cell' = IF cell = 11 THEN cell ELSE cell + 1
    /\ kstatus' = IF cell = 11 THEN "done" ELSE "running"
    /\ error' = ""

\* the cell raises as if the exception were caught and the run taken as done
RaiseCaught(what) ==
    /\ kstatus' = "done"
    /\ error' = what
    /\ UNCHANGED <<cell, ns>>

\* the cell raises: the run stops at it
Raise(what) ==
    /\ kstatus' = "failed"
    /\ error' = what
    /\ UNCHANGED <<cell, ns>>

\* cell 1: from devito import *, ...
Cell1Imports ==
    /\ Running(1)
    /\ IF {"devito", "numpy", "scipy", "matplotlib"} \subseteq image.py
       THEN Done(Bind([imported |-> {"devito", "numpy", "scipy", "matplotlib"}]))
       ELSE Raise("ModuleNotFoundError")
    /\ UNCHANGED <<run, cdirs, cfiles, saved>>
    /\ UNCHANGED buildVars

\* cell 2 as it would be with !mkdir -p ../fig alone
Cell2MkdirFigOnly ==
    /\ Running(2)
    /\ cdirs' = cdirs \cup WithParents(NbPath(FigDir))
    /\ Done(ns)
    /\ UNCHANGED <<run, cfiles, saved>>
    /\ UNCHANGED buildVars

\* cell 2: !mkdir -p ../dat ../fig
Cell2Mkdir ==
    /\ Running(2)
    /\ cdirs' = cdirs \cup WithParents(NbPath(DatDir)) \cup WithParents(NbPath(FigDir))
    /\ Done(ns)
    /\ UNCHANGED <<run, cfiles, saved>>
    /\ UNCHANGED buildVars

\* cell 3: the grid, the layered model and SeismicModel
Cell3Model ==
    /\ Running(3)
    /\ LET aemodel == aemodel_filled
           mu == MulArrays(MulArrays(aemodel[3], aemodel[2]), aemodel[2])
           lam == SubArrays(MulArrays(MulArrays(aemodel[3], aemodel[1]), aemodel[1]),
                            TimesArray(2 * Scale, mu))
           b == OverArray(Scale, aemodel[3])
           model == SeismicModel(<<0, 0>>, aemodel[1], aemodel[2], b, shape, <<dx, dz>>, so, 0)
       IN  IF model.ok
           THEN Done(Bind([ xmax |-> xmax, zmax |-> zmax, dx |-> dx, dz |-> dz,
                            nx |-> nx, nz |-> nz, nza |-> nza,
                            sx |-> sx, sz |-> sz, rx |-> rx, rz |-> rz,
                            extent |-> <<xmax, zmax>>, shape |-> shape, spacing |-> <<dx, dz>>,
                            aemodel |-> aemodel,
                            vpa |-> vpa, vsa |-> vsa, rhoa |-> rhoa,
                            vpe |-> vpe, vse |-> vse, rhoe |-> rhoe,
                            mu |-> mu, lam |-> lam, b |-> b,
                            so |-> so, to |-> to, origin |-> <<0, 0>>, nbl |-> nbl,
                            model |-> model ]))
           ELSE Raise("ValueError")
    /\ UNCHANGED <<run, cdirs, cfiles, saved>>
    /\ UNCHANGED buildVars

\* cell 4: the time axis, the dummy source and the wavelet that replaces it
Cell4Source ==
    /\ Running(4)
    /\ LET time_range == TimeAxis(ot, (nt - 1) * dt, dt)
           sliced == src1_slice
           src1 == [sliced EXCEPT !.normalised = TRUE, !.gain = src1_gain]
       IN  IF sliced.n > 0 /\ src1.n \in {1, time_range.num}
           THEN Done(Bind([ nt |-> nt, dt |-> dt, ot |-> ot,
                            t0 |-> ot, tn |-> (nt - 1) * dt,
                            time_range |-> time_range,
                            src1 |-> src1,
                            src |-> [ name |-> "src", time_range |-> time_range,
                                      rows |-> time_range.num, data |-> src1,
                                      coordinates |-> <<ns.sx, ns.sz>> ] ]))
           ELSE Raise("ValueError")
    /\ UNCHANGED <<run, cdirs, cfiles, saved>>
    /\ UNCHANGED buildVars

\* cell 5: plt.plot(np.linspace(ot, (nt-1)*dt, nt), src.data[:, 0])
Cell5Plot ==
    /\ Running(5)
    /\ IF ns.nt = ns.src.rows THEN Done(ns) ELSE Raise("ValueError")
    /\ UNCHANGED <<run, cdirs, cfiles, saved>>
    /\ UNCHANGED buildVars

\* cell 6: the velocity vector v and the stress tensor tau on the model's grid
Cell6Fields ==
    /\ Running(6)
    /\ Done(Bind([ v |-> [ name |-> "v", grid |-> ns.model.grid, space_order |-> ns.so,
                           time_order |-> ns.to, components |-> <<"v_x", "v_z">> ],
                   tau |-> [ name |-> "t", grid |-> ns.model.grid, space_order |-> ns.so,
                             time_order |-> ns.to,
                             components |-> <<"t_xx", "t_xz", "t_zz">> ] ]))
    /\ UNCHANGED <<run, cdirs, cfiles, saved>>
    /\ UNCHANGED buildVars

\* cell 7: bc = freesurface_top(tau, v, model)
Cell7FreeSurface ==
    /\ Running(7)
    /\ Done(Bind([bc |-> <<Bc("t_xx"), Bc("t_zz")>>]))
    /\ UNCHANGED <<run, cdirs, cfiles, saved>>
    /\ UNCHANGED buildVars

\* a receiver with only its x coordinate assigned
Located_x_only(r, x, z) == [r EXCEPT !.coordinates = <<x, 0>>]

\* rec.coordinates.data[0, 0] = x; rec.coordinates.data[0, 1] = z
Located(r, x, z) == [r EXCEPT !.coordinates = <<x, z>>]

\* cell 8: the source injection and the three receivers
Cell8Receivers ==
    /\ Running(8)
    /\ LET at(r) == Located(r, ns.rx, ns.rz)
       IN  Done(Bind([ src_xx |-> <<Inject("t_xx")>>,
                       src_zz |-> <<Inject("t_zz")>>,
                       inject_dt |-> ns.dt,
                       nrec |-> nrec,
                       rec1 |-> at(Receiver("rec1", nrec, ns.time_range)),
                       rec2 |-> at(Receiver("rec2", nrec, ns.time_range)),
                       rec3 |-> at(Receiver("rec3", nrec, ns.time_range)),
                       rec_term |-> rec_term ]))
    /\ UNCHANGED <<run, cdirs, cfiles, saved>>
    /\ UNCHANGED buildVars

\* cell 9 as it would be with the boundary condition given before the updates
Cell9OperatorBcFirst ==
    /\ Running(9)
    /\ Done(Bind([ op |-> ns.bc \o <<u_v>> \o <<u_t>> \o ns.src_xx \o ns.src_zz
                          \o ns.rec_term ]))
    /\ UNCHANGED <<run, cdirs, cfiles, saved>>
    /\ UNCHANGED buildVars

\* cell 9: op = Operator([u_v] + [u_t] + bc + src_xx + src_zz + rec_term)
Cell9Operator ==
    /\ Running(9)
    /\ Done(Bind([ op |-> <<u_v>> \o <<u_t>> \o ns.bc \o ns.src_xx \o ns.src_zz
                          \o ns.rec_term ]))
    /\ UNCHANGED <<run, cdirs, cfiles, saved>>
    /\ UNCHANGED buildVars

\* cell 10 as it would be if it also saved the records it has
Cell10ApplyAndSave ==
    /\ Running(10)
    /\ Done(Bind([ applied |-> [ dt |-> ns.dt, steps |-> ns.src.rows,
                                 surface |-> StepEquations(ns.op, Row0Unwritten,
                                     InjectedRows(ns.src.coordinates[2],
                                                  ns.model.grid.spacing[2])) ],
                   rec1 |-> [ns.rec1 EXCEPT !.data = Recorded(ns.rec1, ns.op)],
                   rec2 |-> [ns.rec2 EXCEPT !.data = Recorded(ns.rec2, ns.op)],
                   rec3 |-> [ns.rec3 EXCEPT !.data = Recorded(ns.rec3, ns.op)] ]))
    /\ saved' = [f \in DOMAIN saved \cup {NbPath(Devito2)} |->
                    IF f = NbPath(Devito2)
                    THEN [ data |-> <<>>, run |-> run,
                           version |-> IF f \in DOMAIN saved THEN saved[f].version + 1 ELSE 1 ]
                    ELSE saved[f]]
    /\ UNCHANGED <<run, cdirs, cfiles>>
    /\ UNCHANGED buildVars

\* cell 10: op.apply(dt=dt): the time loop over the samples of the source, which
\* fills the data of the receivers
Cell10Apply ==
    /\ Running(10)
    /\ Done(Bind([ applied |-> [ dt |-> ns.dt, steps |-> ns.src.rows,
                                 surface |-> StepEquations(ns.op, Row0Unwritten,
                                     InjectedRows(ns.src.coordinates[2],
                                                  ns.model.grid.spacing[2])) ],
                   rec1 |-> [ns.rec1 EXCEPT !.data = Recorded(ns.rec1, ns.op)],
                   rec2 |-> [ns.rec2 EXCEPT !.data = Recorded(ns.rec2, ns.op)],
                   rec3 |-> [ns.rec3 EXCEPT !.data = Recorded(ns.rec3, ns.op)] ]))
    /\ UNCHANGED <<run, cdirs, cfiles, saved>>
    /\ UNCHANGED buildVars

\* cell 11: allrec = np.zeros((3, nt)), its three rows, np.save('../dat/devito2', allrec)
Cell11Save ==
    /\ Running(11)
    /\ LET rows == allrec_rows(ns.rec1, ns.rec2, ns.rec3)
           fits == \A k \in 1..3 : RowFits(rows[k], ns.nt)
           allrec == [k \in 1..3 |-> RowOf(rows[k], ns.nt)]
           file == NbPath(Devito2)
           version == IF file \in DOMAIN saved THEN saved[file].version + 1 ELSE 1
       IN  IF ~fits THEN Raise("ValueError") /\ UNCHANGED saved
           ELSE IF Parent(file) \notin cdirs THEN Raise("FileNotFoundError") /\ UNCHANGED saved
           ELSE /\ Done(Bind([allrec |-> allrec]))
                /\ saved' = [f \in DOMAIN saved \cup {file} |->
                               IF f = file
                               THEN [data |-> allrec, run |-> run, version |-> version]
                               ELSE saved[f]]
    /\ UNCHANGED <<run, cdirs, cfiles>>
    /\ UNCHANGED buildVars

\* the cells that call Devito (model, source, fields, operator, time loop) may
\* raise whatever the library raises
CellRaises ==
    /\ kstatus = "running"
    /\ cell \in {3, 4, 6, 8, 9, 10}
    /\ Raise("external")
    /\ UNCHANGED <<run, cdirs, cfiles, saved>>
    /\ UNCHANGED buildVars

Notebook ==
    \/ StartContainer \/ RunNotebook
    \/ Cell1Imports \/ Cell2Mkdir \/ Cell3Model \/ Cell4Source \/ Cell5Plot
    \/ Cell6Fields \/ Cell7FreeSurface \/ Cell8Receivers \/ Cell9Operator
    \/ Cell10Apply \/ Cell11Save \/ CellRaises

vars == <<dockerfile, specfemExe, date, bpc, bstatus, image, workdir, env,
          kstatus, cell, run, ns, error, cdirs, cfiles, saved>>

Init == BuildInit /\ NbInit

Next == Build \/ Notebook

Spec == Init /\ [][Next]_vars

(***************************************************************************)
(* The claims about the image build                                        *)
(***************************************************************************)

Built == bstatus = "built"

CompiledRepos == {c.repo : c \in image.compiled}

\* C1: a finished build of either Dockerfile has installed fwi2d, SPECFEM2D and
\* Devito, and the import of Devito in cell 1 of the notebook never fails for a
\* missing package.
C1_BuildInstallsAllThree ==
    /\ Built => /\ {"fwi2d", "specfem2d", "devito"} \subseteq image.installed
                /\ "devito" \in image.py
    /\ error # "ModuleNotFoundError"

\* C2 (as claimed): every source the build compiles is a commit checked out by
\* its hash, the same on every date of the build.
C2_EveryCloneIsPinned ==
    \A c \in image.compiled : c.commit.asof = 0

\* C2 (amended): the source of fwi2d the build compiles is the commit checked out
\* by its hash in the Dockerfile, whatever the date of the build; the sources of
\* SPECFEM2D and Devito are the heads of their branches on the date of the build.
C2_OnlyFwi2dIsPinned ==
    \A c \in image.compiled :
        IF c.repo = "fwi2d"
        THEN /\ c.commit.asof = 0
             /\ c.commit.id = IF dockerfile = "Dockerfile"
                              THEN "1b20e7ee0bbe06eb43cbee18c91d7ed29809a8e4"
                              ELSE "4eaafedea7f58a944c5278661d6f59ec5548799b"
        ELSE c.commit.asof = date

\* a build on the later date has compiled fwi2d and SPECFEM2D
C2_Witness ==
    Built /\ date = MaxDates /\ {"fwi2d", "specfem2d"} \subseteq CompiledRepos

\* C3: after a finished build the folder /home/sbp_sat_geophysics_2022/specfem2d
\* holds xmeshfem2D and xspecfem2d.
C3_ExecutablesInFolder ==
    Built => { Norm(Tail(SpecfemFolder)) \o <<"xmeshfem2D">>,
               Norm(Tail(SpecfemFolder)) \o <<"xspecfem2d">> } \subseteq image.files

\* C4: the commit of fwi2d a build compiles is the one the README names.
C4_DockerCommitIsReadmeCommit ==
    \A c \in image.compiled : c.repo = "fwi2d" => c.commit = Pinned(ReadmeFwi2dCommit)

(***************************************************************************)
(* The claims about the notebook                                           *)
(***************************************************************************)

Has(name) == name \in DOMAIN ns

SavedFile == NbPath(Devito2)

\* C5: once the model is built, its horizontal extent, its vertical extent and the
\* depth of the fluid-solid interface are those of specfem2d/interface2.p.
C5_SameCoordinates ==
    Has("model") =>
        /\ ns.xmax = MeshWidth(interface2_p)
        /\ ns.model.grid.extent[1] = MeshWidth(interface2_p)
        /\ ns.model.grid.extent[2] = MeshHeight(interface2_p)
        /\ ns.nza * ns.dz = OceanBottomDepth(interface2_p)

\* C6: cell 3 raises no shape error, and once the model is built the planes of
\* aemodel (vp, vs, density) and mu, lam and b all have the shape (nx, nz), which is
\* the shape given to SeismicModel together with the spacing (dx, dz).
C6_SameShape ==
    /\ ~(cell = 3 /\ error = "ValueError")
    /\ Has("model") =>
        LET shp == <<ns.nx, ns.nz>>
        IN  /\ \A k \in 1..3 : ns.aemodel[k].shape = shp /\ Len(ns.aemodel[k].col) = ns.nz
            /\ ns.mu.shape = shp /\ ns.lam.shape = shp /\ ns.b.shape = shp
            /\ ns.shape = shp
            /\ ns.model.grid.shape = shp
            /\ ns.model.grid.spacing = <<ns.dx, ns.dz>>
            /\ ns.model.vp.shape = shp /\ ns.model.vs.shape = shp /\ ns.model.b.shape = shp

\* the model is built and the next cell is to run
C6_Witness == Has("model") /\ kstatus = "running" /\ cell = 4

\* C7: the wavelet slice has nt samples and lies inside the 2*nt-1 generated ones,
\* so cells 4 and 5 raise no length error; the time axis has nt samples from 0 to
\* (nt-1)*dt in steps of dt; the three receivers use that time axis; the operator
\* is applied with that dt.
C7_OneSamplingEverywhere ==
    /\ ~(cell \in {4, 5} /\ error = "ValueError")
    /\ Has("src") =>
        /\ ns.src1.n = ns.nt
        /\ ns.src1.points = 2 * ns.nt - 1
        /\ ns.src1.off + ns.src1.n <= ns.src1.points
        /\ ns.time_range = [start |-> 0, step |-> ns.dt, num |-> ns.nt,
                            stop |-> (ns.nt - 1) * ns.dt]
        /\ ns.src.time_range = ns.time_range
        /\ ns.src.rows = ns.nt
    /\ Has("rec1") =>
        \A r \in {ns.rec1, ns.rec2, ns.rec3} :
            r.time_range = ns.time_range /\ Len(r.data) = ns.nt
    /\ Has("applied") =>
        /\ ns.applied.dt = ns.dt
        /\ ns.applied.dt = ns.time_range.step
        /\ ns.applied.steps = ns.nt

\* the operator has been applied
C7_Witness == Has("applied") /\ kstatus = "running" /\ cell = 11

\* C8: the saved array has 3 rows of nt columns: at column i, row 0 holds the negated
\* xx stress, row 1 the horizontal velocity and row 2 the vertical velocity of time
\* step i.
C8_OutputRows ==
    SavedFile \in DOMAIN saved =>
        LET a == saved[SavedFile].data
        IN  /\ Len(a) = 3
            /\ \A k \in 1..3 : Len(a[k]) = nt
            /\ \A i \in 1..nt :
                /\ a[1][i] = [q |-> "t_xx", it |-> i - 1, sign |-> 0 - 1]
                /\ a[2][i] = [q |-> "v_x", it |-> i - 1, sign |-> 1]
                /\ a[3][i] = [q |-> "v_z", it |-> i - 1, sign |-> 1]

\* a run has saved its records, the last time step among them
C8_Witness ==
    /\ kstatus = "done"
    /\ SavedFile \in DOMAIN saved
    /\ saved[SavedFile].data[3][nt].it = nt - 1

\* C9: the save never fails for a missing directory, and a step that writes
\* ../dat/devito2.npy is the last cell of a run whose earlier cells have created
\* ../dat and applied the operator; no file is written by any other step.
C9_SaveAfterMkdirAndApply ==
    /\ [](error # "FileNotFoundError")
    /\ [][saved' # saved =>
            /\ kstatus = "running" /\ cell = 11
            /\ Has("applied")
            /\ Parent(SavedFile) \in cdirs
            /\ DOMAIN saved' = {SavedFile}]_vars

\* the first run in a container, where no array file existed, is done and has
\* written its file into the directory it created
C9_Witness ==
    /\ kstatus = "done" /\ run = 1
    /\ DOMAIN saved = {SavedFile}
    /\ saved[SavedFile].version = 1
    /\ NbPath(DatDir) \in cdirs /\ NbPath(DatDir) \notin image.dirs

\* C10 (as claimed): once written, ../dat/devito2.npy is never written again.
C10_NeverModified ==
    [][\A f \in DOMAIN saved : f \in DOMAIN saved' /\ saved'[f] = saved[f]]_vars

\* C10 (amended): a run writes ../dat/devito2.npy exactly once, in its last cell:
\* a step that writes the file ends the run, the file it replaces (if any) is that
\* of an earlier run, and a run that is done has written the file itself.
C10_WrittenOncePerRun ==
    /\ [](kstatus = "done" => SavedFile \in DOMAIN saved /\ saved[SavedFile].run = run)
    /\ [][saved' # saved =>
            /\ kstatus' = "done"
            /\ saved'[SavedFile].run = run
            /\ SavedFile \in DOMAIN saved =>
                /\ saved[SavedFile].run < run
                /\ saved'[SavedFile].version = saved[SavedFile].version + 1]_vars

\* a further run has replaced the file of the first
C10_Witness ==
    /\ kstatus = "done" /\ run = 2
    /\ saved[SavedFile].version = 2

(***************************************************************************)
(* The working directory of the image                                      *)
(***************************************************************************)

\* C11: a container's shell starts in /home, the directory that holds
\* sbp_sat_geophysics_2022 with the notebooks: a finished build has WORKDIR /home,
\* the folder and its notebooks are in the image and in every container of it, and
\* once a build step has set the working directory no later step changes it.
C11_ShellOpensAtHome ==
    /\ [](Built => /\ workdir = <<"home">>
                   /\ (workdir \o <<"sbp_sat_geophysics_2022", "notebooks">>) \in image.dirs
                   /\ (workdir \o <<"sbp_sat_geophysics_2022", "notebooks", "2e_Devito.ipynb">>)
                         \in image.files)
    /\ [](kstatus # "none" =>
            (workdir \o <<"sbp_sat_geophysics_2022", "notebooks">>) \in cdirs)
    /\ [][workdir # <<>> => workdir' = workdir]_vars

\* a container of a built image has been started
C11_Witness == kstatus = "idle" /\ workdir = <<"home">>

(***************************************************************************)
(* The grid, the layers and the free surface of the notebook               *)
(***************************************************************************)

\* C12: once the grid parameters are assigned, the grid spans 6000 m by 4080 m:
\* (nx-1)*dx is 6000, (nz-1)*dz is 4080 and the extent is (6000, 4080).
C12_GridSpans6000By4080 ==
    Has("extent") =>
        /\ (ns.nx - 1) * ns.dx = 6000
        /\ (ns.nz - 1) * ns.dz = 4080
        /\ ns.extent = <<6000, 4080>>

\* C13: once the model is filled, at every depth index from 0 to nza the three
\* planes hold the fluid values and at every depth index above nza the solid ones;
\* the density is nowhere zero and the buoyancy 1/density is finite everywhere.
C13_FluidAboveSolidBelow ==
    Has("aemodel") =>
        /\ \A iz \in 0..(ns.nz - 1) :
              <<ns.aemodel[1].col[iz + 1], ns.aemodel[2].col[iz + 1], ns.aemodel[3].col[iz + 1]>>
                = IF iz <= ns.nza THEN <<150, 0, 100>> ELSE <<300, 100, 250>>
        /\ \A iz \in 0..(ns.nz - 1) :
              /\ ns.aemodel[3].col[iz + 1] # 0
              /\ ns.b.col[iz + 1] # Inf
              /\ ns.b.col[iz + 1] = IF iz <= ns.nza THEN 100 ELSE 40

\* the model is filled with a fluid interface row over a solid row
C13_Witness ==
    /\ Has("aemodel")
    /\ ns.aemodel[1].col[ns.nza + 1] = 150
    /\ ns.aemodel[1].col[ns.nza + 2] = 300
    /\ ns.b.col[ns.nz] = 40

\* C14: the operator's equations are, in order, the velocity update, the stress
\* update, the two boundary conditions, the two source injections and the three
\* receiver interpolations; after a time step has run them, t_xx and t_zz of the new
\* time level are zero at depth index 0 for every x, and the source injection does
\* not write to depth index 0.
C14_FreeSurfaceAtTop ==
    /\ Has("op") =>
        /\ [k \in 1..Len(ns.op) |-> ns.op[k].kind]
             = <<"update", "update", "bc", "bc", "inject", "inject",
                 "interpolate", "interpolate", "interpolate">>
        /\ ns.op[1].field = "v" /\ ns.op[2].field = "t"
        /\ {ns.op[3].field, ns.op[4].field} = {"t_xx", "t_zz"}
        /\ {ns.op[5].field, ns.op[6].field} = {"t_xx", "t_zz"}
    /\ Has("applied") =>
        /\ ns.applied.surface["t_xx"] = "zero"
        /\ ns.applied.surface["t_zz"] = "zero"
        /\ 0 \notin InjectedRows(ns.src.coordinates[2], ns.dz)

\* the time loop has run with the source below the surface, and the stress update
\* has written the row that the boundary condition does not reset
C14_Witness ==
    /\ Has("applied")
    /\ ns.applied.surface["t_xz"] = "stencil"
    /\ ns.applied.surface["t_xx"] = "zero"
    /\ ns.src.coordinates[2] > 0

(***************************************************************************)
(* The source wavelet                                                      *)
(***************************************************************************)

\* C15: once the source is set, the wavelet was generated with 2*nt-1 samples, its
\* central peak (index nt-1) is among the nt samples kept, the largest sample after
\* the division by the maximum is 1 and after the scaling is 90, and the source
\* holds this wavelet in all of its nt samples.
C15_WaveletNormalisedAndScaled ==
    Has("src") =>
        /\ ns.src1.points = 2 * ns.nt - 1
        /\ PeakIndex(ns.src1) = ns.nt - 1
        /\ SliceContainsPeak(ns.src1)
        /\ LargestSample([ns.src1 EXCEPT !.gain = Scale]) = Scale
        /\ LargestSample(ns.src1) = 90 * Scale
        /\ ns.src1.n = ns.nt
        /\ ns.src.rows = ns.nt
        /\ ns.src.data = ns.src1

\* the source holds the slice that starts at sample 4750, before the peak
C15_Witness ==
    /\ Has("src")
    /\ ns.src.data.off = 4750
    /\ ns.src.data.off < PeakIndex(ns.src.data)
    /\ ns.src.data.normalised

(***************************************************************************)
(* The interface files                                                     *)
(***************************************************************************)

WellFormed(file) ==
    LET d == DataLines(file)
        n == d[1].nums[1]
        s == Interfaces(file)
        counts == DeclaredCounts(d, 2, n)
        layers == LayerCounts(file)
    IN  /\ Len(d[1].nums) = 1
        /\ Len(s) = n /\ Len(counts) = n
        /\ \A i \in 1..Len(s) :
              /\ Len(s[i]) = counts[i]
              /\ \A j \in 1..Len(s[i]) : Len(s[i][j]) = 2
        /\ Len(layers) = n - 1
        /\ \A l \in 1..Len(layers) : Len(layers[l]) = 1 /\ layers[l][1] > 0
        /\ \A i \in 1..Len(s) :
              /\ MinOf(Xs(s[i])) = MinOf(Xs(s[1]))
              /\ MaxOf(Xs(s[i])) = MaxOf(Xs(s[1]))
        /\ \A i \in 1..(Len(s) - 1) : MaxOf(Zs(s[i])) < MinOf(Zs(s[i + 1]))

\* C16: in each interface file (part_000, and interface2.p wherever the image or a
\* container holds it) the declared number of interfaces is the number of
\* interface blocks, each block lists as many x,z pairs as it declares, the layer
\* counts are one fewer than the interfaces, all interfaces span one x range, and
\* the interfaces are listed bottom to top with strictly increasing z.
C16_InterfaceFilesWellFormed ==
    /\ WellFormed(part_000)
    /\ \A f \in image.files \cup cfiles :
          BaseName(f) = "interface2.p" => WellFormed(interface2_p)

\* the interface file is in a container, read as three interfaces and two layers
C16_Witness ==
    /\ (Norm(Tail(SpecfemFolder)) \o <<"interface2.p">>) \in cfiles
    /\ Len(Interfaces(interface2_p)) = 3
    /\ LayerCounts(interface2_p) = << <<72>>, <<30>> >>
    /\ LayerCounts(part_000) = << <<144>>, <<56>> >>

(***************************************************************************)
(* Failures of the notebook                                                *)
(***************************************************************************)

\* C17: a cell that fails stops the run at that cell: the run stays failed, with
\* its cell, its names and the files as they were, until the notebook is run anew
\* from its first cell; a failed run has not written ../dat/devito2.npy, and the
\* file, when there is one, holds a recorded sample of every time step in each row.
C17_FailureStopsTheRun ==
    /\ [](error # "" => kstatus = "failed")
    /\ [](kstatus = "failed" =>
            ~(SavedFile \in DOMAIN saved /\ saved[SavedFile].run = run))
    /\ [](SavedFile \in DOMAIN saved =>
            \A k \in 1..3 :
                /\ Len(saved[SavedFile].data[k]) = nt
                /\ \A i \in 1..nt : saved[SavedFile].data[k][i].q # "zero"
                                      /\ saved[SavedFile].data[k][i].it = i - 1)
    /\ [][kstatus' = "failed" /\ kstatus # "failed" =>
            cell' = cell /\ ns' = ns /\ saved' = saved /\ error' # ""]_vars
    /\ [][kstatus = "failed" =>
            \/ kstatus' = "failed" /\ cell' = cell /\ ns' = ns /\ saved' = saved
            \/ run' = run + 1 /\ cell' = 1 /\ ns' = NoNames /\ saved' = saved]_vars

\* the second run failed in the time loop, and the file of the first run is there
C17_Witness ==
    /\ kstatus = "failed" /\ cell = 10 /\ error = "external" /\ run = 2
    /\ SavedFile \in DOMAIN saved
    /\ saved[SavedFile].run = 1

(***************************************************************************)
(* The steps of the build                                                  *)
(***************************************************************************)

\* C18: after a finished build, one of the directories of PATH is the bin directory
\* of the prefix fwi2d was installed into, and it holds the installed executable.
C18_Fwi2dBinOnPath ==
    Built =>
        \E k \in 1..Len(env.PATH) :
            /\ Norm(Tail(env.PATH[k])) = image.prefix \o <<"bin">>
            /\ (Norm(Tail(env.PATH[k])) \o <<"WE_MODELING.x">>) \in image.files

CmdsOf(ins) == {ins.cmds[k] : k \in 1..Len(ins.cmds)}

InImage(p) == Norm(Tail(p))

\* what the image must hold for the instruction ins to find its paths
PathsReady(ins) ==
    \A c \in CmdsOf(ins) :
        /\ c.c = "cp" /\ c.b = OptIspcBin \o <<"">> => InImage(OptIspcBin) \in image.dirs
        /\ c.c = "cmake" => InImage(c.b) \in image.files
        /\ c.c \in {"cp", "ls"} /\ c.b = SpecfemFolder =>
              /\ InImage(SpecfemFolder) \in image.dirs
              /\ "specfem2d" \in image.installed
              /\ InImage(<<"/", "opt", "specfem2d", "bin", "xmeshfem2D">>) \in image.files
              /\ InImage(<<"/", "opt", "specfem2d", "bin", specfemExe>>) \in image.files
        /\ c.c = "rm" /\ c.a = <<"/", "opt", "specfem2d">> =>
              /\ InImage(SpecfemFolder \o <<"xmeshfem2D">>) \in image.files
              /\ InImage(SpecfemFolder \o <<specfemExe>>) \in image.files

C20_SourceAndReceiversOnGrid ==
    Has("rec1") =>
        /\ ns.sx % ns.dx = 0 /\ ns.sx \div ns.dx \in 0..(ns.nx - 1)
        /\ ns.rx % ns.dx = 0 /\ ns.rx \div ns.dx \in 0..(ns.nx - 1)
        /\ ns.sz % ns.dz = 0 /\ ns.sz \div ns.dz \in 0..(ns.nz - 1)
        /\ ns.rz % ns.dz = 0 /\ ns.rz \div ns.dz \in 0..(ns.nz - 1)
        /\ ns.src.coordinates = <<ns.sx, ns.sz>>
        /\ ns.src.coordinates[2] \div ns.dz < ns.nza
        /\ \A r \in {ns.rec1, ns.rec2, ns.rec3} :
              /\ r.coordinates = <<ns.rx, ns.rz>>
              /\ r.coordinates[2] \div ns.dz = ns.nza
              /\ <<ns.aemodel[1].col[r.coordinates[2] \div ns.dz + 1],
                    ns.aemodel[2].col[r.coordinates[2] \div ns.dz + 1],
                    ns.aemodel[3].col[r.coordinates[2] \div ns.dz + 1]>> = <<150, 0, 100>>

\* the three receivers are set, 16 rows below the source
C20_Witness ==
    /\ Has("rec3")
    /\ ns.rec3.coordinates[2] \div ns.dz = 240
    /\ ns.src.coordinates[2] \div ns.dz = 224

====
